---- MODULE Spec2Model ----
(***************************************************************************)
(* A model of craig, a terminal dashboard: main (src/src/main.rs), the     *)
(* control loop App::run with its key handling, selection and rendering    *)
(* (src/src/core/app.rs) and the remote status update ServerState::update  *)
(* (src/src/core/server.rs).                                               *)
(*                                                                         *)
(* The program is one thread.  pc is its position; every call that can     *)
(* block (a remote fetch, the event poll) is one step, and the clock `now` *)
(* advances by the time the call takes.                                    *)
(***************************************************************************)
EXTENDS Integers, Sequences, FiniteSets, TLC

VARIABLES
    pc,             \* position of the thread in main / App::run
    ctx,            \* which loop over server_states is running, if any
    idx,            \* 1-based position of that loop in server_states
    terminal,       \* "cooked" | "raw": what ratatui::init / restore left
    exit_code,      \* process exit status, -1 while running
    ips,            \* App.ips
    server_states,  \* App.server_states
    list_state,     \* App.list_state.selected(): NoneSel or a 0-based index
    should_exit,    \* App.should_exit
    system_stats,   \* App.system_stats: cpu_usages, mem_usage, max_mem
    now,            \* Instant::now(), in ms since the process started
    system_update,  \* run's local system_update
    state_timer,    \* run's local state_timer
    ticks,          \* number of times the clock has advanced
    fetched,        \* per entry, what its fetch returned in the current loop over server_states
    last_fetch,     \* per entry, when its latest fetch started (-1: never)
    ops             \* the calls applied so far (function scenarios only)

vars == <<pc, ctx, idx, terminal, exit_code, ips, server_states, list_state,
          should_exit, system_stats, now, system_update, state_timer, ticks,
          fetched, last_fetch, ops>>

----------------------------------------------------------------------------
(* Bounds *)

\* how many times the clock may advance by a non-zero amount
MaxTicks == 2
\* number of logical CPUs of the machine
NumCpus == 1
\* longest sequence of navigation calls in the selection scenarios
MaxOps == 4

----------------------------------------------------------------------------
(* Program constants *)

\* Duration::from_millis(500): the local metrics interval
SysInterval == 500
\* Duration::from_millis(30000): the remote status interval
StateInterval == 30000
\* event::poll(Duration::from_millis(16))
PollTimeout == 16
\* ListState::default(): nothing selected
NoneSel == -1

\* App::new: the three compiled-in addresses
ConfiguredIps == <<"129.80.58.106:8080", "129.80.58.106:8081", "129.80.58.106:8082">>

----------------------------------------------------------------------------
(* serde_json::Value *)

JNull == [t |-> "null"]
JBool(b) == [t |-> "bool", b |-> b]
JNum(n) == [t |-> "num", n |-> n]
JStr(s) == [t |-> "str", s |-> s]
JArr(a) == [t |-> "arr", a |-> a]
JObj(o) == [t |-> "obj", o |-> o]

\* value["key"]: Null unless value is an object holding the key
Index(v, key) ==
    IF v.t = "obj" /\ key \in DOMAIN v.o THEN v.o[key] ELSE JNull

\* as_bool().unwrap_or(false)
as_bool_or_false(v) == IF v.t = "bool" THEN v.b ELSE FALSE

\* as_u64().unwrap_or(0): a number that is no u64 (negative) gives None
as_u64_or_0(v) == IF v.t = "num" /\ v.n >= 0 THEN v.n ELSE 0

Digit(d) == CASE d = 0 -> "0" [] d = 1 -> "1" [] d = 2 -> "2" [] d = 3 -> "3"
              [] d = 4 -> "4" [] d = 5 -> "5" [] d = 6 -> "6" [] d = 7 -> "7"
              [] d = 8 -> "8" [] d = 9 -> "9"

RECURSIVE Decimal(_)
Decimal(n) == IF n < 10 THEN Digit(n) ELSE Decimal(n \div 10) \o Digit(n % 10)

\* Value::to_string(): Display for Value writes the value as JSON text, so a
\* string comes out inside double quotes
to_string(v) ==
    CASE v.t = "null" -> "null"
      [] v.t = "bool" -> (IF v.b THEN "true" ELSE "false")
      [] v.t = "num"  -> (IF v.n < 0 THEN "-" \o Decimal(0 - v.n) ELSE Decimal(v.n))
      [] v.t = "str"  -> "\"" \o v.s \o "\""

----------------------------------------------------------------------------
(* ServerState *)

ServerState_new(ip) ==
    [ip |-> ip, status |-> FALSE, player_count |-> 0, max_players |-> 0,
     players |-> <<>>]

\* the for loop over the array: one push per element, in order
RECURSIVE PushNames(_, _)
PushNames(players, list) ==
    IF list = <<>> THEN players
    ELSE PushNames(Append(players, to_string(Index(Head(list), "name_clean"))),
                   Tail(list))

\* self.players = Vec::new()
PlayersBase_keep(self) == self.players
PlayersBase(self) == <<>>

\* the assignments after a response was read
ApplyResponse(self, response) ==
    LET list == Index(Index(response, "players"), "list") IN
    [ip |-> self.ip,
     status |-> as_bool_or_false(Index(response, "online")),
     player_count |-> as_u64_or_0(Index(Index(response, "players"), "online")),
     max_players |-> as_u64_or_0(Index(Index(response, "players"), "max")),
     players |-> IF list.t = "arr" THEN PushNames(PlayersBase(self), list.a)
                 ELSE PlayersBase(self)]

\* `?` on call() and on read_json(): return the error, self untouched
OnFetchError_blank(self) == ServerState_new(self.ip)
OnFetchError(self) == self

ServerState_update_strict(self, result) ==
    IF result.kind = "ok" /\ Index(result.body, "players").t = "obj"
    THEN [state |-> ApplyResponse(self, result.body), ok |-> TRUE]
    ELSE [state |-> OnFetchError(self), ok |-> FALSE]

\* ServerState::update: result.kind is "ok" with the JSON body, "neterr" when
\* call() fails, "badjson" when read_json() fails
ServerState_update(self, result) ==
    IF result.kind = "ok"
    THEN [state |-> ApplyResponse(self, result.body), ok |-> TRUE]
    ELSE [state |-> OnFetchError(self), ok |-> FALSE]

----------------------------------------------------------------------------
(* Inputs *)

RespOnline ==
    JObj([online |-> JBool(TRUE),
          players |-> JObj([online |-> JNum(1), max |-> JNum(20),
                            list |-> JArr(<<JObj([name_clean |-> JStr("Alice")])>>)])])
RespOffline == JObj([online |-> JBool(FALSE)])

\* JSON bodies the status API may answer with
Responses == <<RespOnline, RespOffline>>

\* what one fetch can return; r indexes Responses
FetchResults ==
    {[kind |-> "ok", r |-> r] : r \in 1..Len(Responses)}
    \cup {[kind |-> "neterr", r |-> 0], [kind |-> "badjson", r |-> 0]}

NotFetched == [kind |-> "none", r |-> 0]

ResultOf(f) ==
    IF f.kind = "ok" THEN [kind |-> "ok", body |-> Responses[f.r]]
    ELSE [kind |-> f.kind, body |-> JNull]

\* how long a fetch may take
FetchDurations == {0, StateInterval}

UsageValues == {0, 100}
\* cpu_percent_percpu(): one percentage per logical CPU
CpuSamples == [1..NumCpus -> UsageValues]
\* virtual_memory(): used and total bytes
MemSamples == {[used |-> 1000, total |-> 2000]}

----------------------------------------------------------------------------
(* Selection *)

\* usize::MAX, the value of 0 - 1 where the subtraction wraps.  It is only
\* compared with, stepped down from and stepped up to, so the largest integer
\* TLC has, 2^31 - 1, stands for it.
UsizeMax == 2147483647

\* self.ips.len() - 1 in a build without overflow checks
wrapping_sub1(n) == IF n = 0 THEN UsizeMax ELSE n - 1

\* App::list_state_next, n = self.ips.len()
list_state_next_nowrap(sel, n) == IF sel = NoneSel THEN 0 ELSE sel + 1
list_state_next(sel, n) ==
    IF sel # NoneSel
    THEN (IF sel >= wrapping_sub1(n) THEN 0 ELSE sel + 1)
    ELSE 0

\* App::list_state_previous, n = self.ips.len()
list_state_previous(sel, n) ==
    IF sel # NoneSel
    THEN (IF sel = 0 THEN wrapping_sub1(n) ELSE sel - 1)
    ELSE 0

\* server_details: the index the detail panel reads
DetailIndex(sel) == IF sel # NoneSel THEN sel ELSE 0

\* render: the rows of the list of n entries that are drawn with the highlight
\* style and symbol, the list widget being rendered with the selection sel
HighlightedRows(sel, n) ==
    IF sel # NoneSel THEN {sel} \cap (0..(n - 1)) ELSE {}

----------------------------------------------------------------------------
(* The system section *)

\* CPUData::new: cpu_count, the number of logical CPUs
cpu_count == NumCpus

SystemHeight_noram(count) == count + 2

\* render: the rows it asks for the system section, one per CPU, one for the
\* RAM and two for the border
SystemHeight(count) == count + 1 + 2

\* cpu_chart: the bars it pushes, one per element of cpu_usages and the RAM
Bars(stats) == Len(stats.cpu_usages) + 1

----------------------------------------------------------------------------
(* The clock *)

\* the clock may advance by d
CanElapse(d) == d = 0 \/ ticks < MaxTicks

Elapse(d) ==
    /\ now' = now + d
    /\ ticks' = IF d = 0 THEN ticks ELSE ticks + 1

\* Instant::elapsed() >= Duration::from_millis(interval)
Elapsed(since, interval) == now - since >= interval

----------------------------------------------------------------------------
(* main and App::new *)

AppNew ==
    /\ ips = ConfiguredIps
    /\ server_states = <<>>
    /\ list_state = NoneSel
    /\ should_exit = FALSE
    /\ system_stats = [cpu_usages |-> <<>>, mem_usage |-> 0, max_mem |-> 0]

Init ==
    /\ pc = "main"
    /\ ctx = "none"
    /\ idx = 0
    /\ terminal = "cooked"
    /\ exit_code = -1
    /\ AppNew
    /\ now = 0
    /\ system_update = 0
    /\ state_timer = 0
    /\ ticks = 0
    /\ fetched = <<>>
    /\ last_fetch = <<>>
    /\ ops = <<>>

\* main: ratatui::init(), App::new(), then app.run(terminal)
Main_start ==
    /\ pc = "main"
    /\ terminal' = "raw"
    /\ pc' = "run"
    /\ UNCHANGED <<ctx, idx, exit_code, ips, server_states, list_state,
                   should_exit, system_stats, now, system_update, state_timer,
                   ticks, fetched, last_fetch, ops>>

\* SystemStats::update with the samples the OS gives
SystemStats_update(cpu, mem) ==
    [cpu_usages |-> cpu, mem_usage |-> mem.used, max_mem |-> mem.total]

CreateServerStates_reversed(addrs) ==
    [i \in 1..Len(addrs) |-> ServerState_new(addrs[Len(addrs) + 1 - i])]

\* the loop at the head of run: one ServerState::new per address, pushed in
\* the order of ips
CreateServerStates(addrs) ==
    [i \in 1..Len(addrs) |-> ServerState_new(addrs[i])]

\* run: create the server states, read the system info
Run_setup ==
    /\ pc = "run"
    /\ server_states' = CreateServerStates(ips)
    /\ \E cpu \in CpuSamples, mem \in MemSamples :
          system_stats' = SystemStats_update(cpu, mem)
    /\ fetched' = [i \in 1..Len(ips) |-> NotFetched]
    /\ last_fetch' = [i \in 1..Len(ips) |-> -1]
    /\ pc' = "draw"
    /\ ctx' = "initial"
    /\ UNCHANGED <<idx, terminal, exit_code, ips, list_state, should_exit,
                   now, system_update, state_timer, ticks, ops>>

----------------------------------------------------------------------------
(* The loops over server_states: in run (the sweep) and in player_list *)

\* terminal.draw -> render -> cpu_chart, then player_list starts its loop
Draw_begin ==
    /\ pc = "draw"
    /\ pc' = "update"
    /\ idx' = 1
    /\ fetched' = [i \in 1..Len(server_states) |-> NotFetched]
    /\ UNCHANGED <<ctx, terminal, exit_code, ips, server_states, list_state,
                   should_exit, system_stats, now, system_update, state_timer,
                   ticks, last_fetch, ops>>

\* Err(_) => continue: on to the next element
NextOnErr_break(i, n) == n + 1
NextOnErr(i, n) == i + 1

\* one pass of `for state in &mut self.server_states`: state.update() returns
\* after d ms with result f
Update_step ==
    /\ pc = "update"
    /\ idx <= Len(server_states)
    /\ \E f \in FetchResults, d \in FetchDurations :
          LET res == ServerState_update(server_states[idx], ResultOf(f)) IN
          /\ CanElapse(d)
          /\ Elapse(d)
          /\ server_states' = [server_states EXCEPT ![idx] = res.state]
          /\ fetched' = [fetched EXCEPT ![idx] = f]
          /\ idx' = IF res.ok THEN idx + 1
                    ELSE NextOnErr(idx, Len(server_states))
    /\ last_fetch' = [last_fetch EXCEPT ![idx] = now]
    /\ UNCHANGED <<pc, ctx, terminal, exit_code, ips, list_state, should_exit,
                   system_stats, system_update, state_timer, ops>>

\* state.update() never returns: ureq is given no timeout
Update_hang ==
    /\ pc = "update"
    /\ idx <= Len(server_states)
    /\ pc' = "hung"
    /\ last_fetch' = [last_fetch EXCEPT ![idx] = now]
    /\ UNCHANGED <<ctx, idx, terminal, exit_code, ips, server_states,
                   list_state, should_exit, system_stats, now, system_update,
                   state_timer, ticks, fetched, ops>>

\* run: the sweep is over, state_timer = Instant::now()
Sweep_end ==
    /\ pc = "update"
    /\ ctx = "sweep"
    /\ idx > Len(server_states)
    /\ state_timer' = now
    /\ pc' = "draw"
    /\ ctx' = "draw"
    /\ fetched' = [i \in 1..Len(server_states) |-> NotFetched]
    /\ UNCHANGED <<idx, terminal, exit_code, ips, server_states, list_state,
                   should_exit, system_stats, now, system_update, ticks,
                   last_fetch, ops>>

DrawResults == {"ok", "io_error"}

\* player_list builds the rows, server_details reads the selected entry, and
\* terminal.draw returns
Draw_end ==
    /\ pc = "update"
    /\ ctx \in {"initial", "draw"}
    /\ idx > Len(server_states)
    /\ DetailIndex(list_state) < Len(server_states)
    /\ \E io \in DrawResults :
          pc' = IF io = "io_error" THEN "failed"
                ELSE IF ctx = "initial" THEN "select" ELSE "events"
    /\ ctx' = "none"
    /\ fetched' = [i \in 1..Len(server_states) |-> NotFetched]
    /\ UNCHANGED <<idx, terminal, exit_code, ips, server_states, list_state,
                   should_exit, system_stats, now, system_update, state_timer,
                   ticks, last_fetch, ops>>

----------------------------------------------------------------------------
(* App::run after the initial draw *)

\* self.list_state.select(Some(0))
SelectAfterDraw_skip(sel) == sel
SelectAfterDraw(sel) == 0

\* select(Some(0)), then both timers start
Run_select ==
    /\ pc = "select"
    /\ list_state' = SelectAfterDraw(list_state)
    /\ system_update' = now
    /\ state_timer' = now
    /\ pc' = "loop"
    /\ UNCHANGED <<ctx, idx, terminal, exit_code, ips, server_states,
                   should_exit, system_stats, now, ticks, fetched, last_fetch,
                   ops>>

\* while !self.should_exit
LoopContinues_always(exit) == TRUE
LoopContinues(exit) == ~exit

Run_loop ==
    /\ pc = "loop"
    /\ pc' = IF LoopContinues(should_exit) THEN "system" ELSE "returned"
    /\ UNCHANGED <<ctx, idx, terminal, exit_code, ips, server_states,
                   list_state, should_exit, system_stats, now, system_update,
                   state_timer, ticks, fetched, last_fetch, ops>>

\* if system_update.elapsed() >= 500 ms { update; system_update = now }
Run_system ==
    /\ pc = "system"
    /\ \E cpu \in CpuSamples, mem \in MemSamples :
          system_stats' = IF Elapsed(system_update, SysInterval)
                          THEN SystemStats_update(cpu, mem)
                          ELSE system_stats
    /\ system_update' = IF Elapsed(system_update, SysInterval) THEN now
                        ELSE system_update
    /\ pc' = "servers"
    /\ UNCHANGED <<ctx, idx, terminal, exit_code, ips, server_states,
                   list_state, should_exit, now, state_timer, ticks, fetched,
                   last_fetch, ops>>

\* if state_timer.elapsed() >= 30000 ms { sweep } , else on to the draw
Run_servers ==
    /\ pc = "servers"
    /\ IF Elapsed(state_timer, StateInterval)
       THEN /\ pc' = "update"
            /\ ctx' = "sweep"
            /\ idx' = 1
            /\ fetched' = [i \in 1..Len(server_states) |-> NotFetched]
       ELSE /\ pc' = "draw"
            /\ ctx' = "draw"
            /\ UNCHANGED <<idx, fetched>>
    /\ UNCHANGED <<terminal, exit_code, ips, server_states, list_state,
                   should_exit, system_stats, now, system_update, state_timer,
                   ticks, last_fetch, ops>>

----------------------------------------------------------------------------
(* App::handle_events *)

\* what event::poll and event::read give in one call of handle_events
Events == {"timeout", "poll_error", "read_error", "press_q", "press_Up",
           "press_Down", "press_other", "key_not_press", "not_key"}

EventDuration(ev) == IF ev = "timeout" THEN PollTimeout ELSE 0

Run_events ==
    /\ pc = "events"
    /\ \E ev \in Events :
          /\ CanElapse(EventDuration(ev))
          /\ Elapse(EventDuration(ev))
          /\ pc' = IF ev \in {"poll_error", "read_error"} THEN "failed"
                   ELSE "loop"
          /\ should_exit' = IF ev = "press_q" THEN TRUE ELSE should_exit
          /\ list_state' =
                CASE ev = "press_Up" -> list_state_previous(list_state, Len(ips))
                  [] ev = "press_Down" -> list_state_next(list_state, Len(ips))
                  [] OTHER -> list_state
    /\ UNCHANGED <<ctx, idx, terminal, exit_code, ips, server_states,
                   system_stats, system_update, state_timer, fetched,
                   last_fetch, ops>>

----------------------------------------------------------------------------
(* main after run *)

\* run returned Ok: ratatui::restore(), Ok(())
Main_restore ==
    /\ pc = "returned"
    /\ terminal' = "cooked"
    /\ exit_code' = 0
    /\ pc' = "exited"
    /\ UNCHANGED <<ctx, idx, ips, server_states, list_state, should_exit,
                   system_stats, now, system_update, state_timer, ticks,
                   fetched, last_fetch, ops>>

\* run returned Err: `?` returns it from main
Main_fail ==
    /\ pc = "failed"
    /\ exit_code' = 1
    /\ pc' = "exited"
    /\ UNCHANGED <<ctx, idx, terminal, ips, server_states, list_state,
                   should_exit, system_stats, now, system_update, state_timer,
                   ticks, fetched, last_fetch, ops>>

Next ==
    \/ Main_start
    \/ Run_setup
    \/ Draw_begin
    \/ Update_step
    \/ Update_hang
    \/ Sweep_end
    \/ Draw_end
    \/ Run_select
    \/ Run_loop
    \/ Run_system
    \/ Run_servers
    \/ Run_events
    \/ Main_restore
    \/ Main_fail

Spec == Init /\ [][Next]_vars

\* the thread runs whenever it can
FairSpec == Spec /\ WF_vars(Next)

----------------------------------------------------------------------------
(* Selection scenarios: list_state_next and list_state_previous applied to *)
(* any selection over a list of zero to three addresses.  Over no address  *)
(* the selection is None (before run selects) or 0 (after select(Some(0))).*)

SelInit ==
    /\ pc = "nav"
    /\ ctx = "none"
    /\ idx = 0
    /\ terminal = "raw"
    /\ exit_code = -1
    /\ \E n \in 0..Len(ConfiguredIps) :
          /\ ips = SubSeq(ConfiguredIps, 1, n)
          /\ server_states = [i \in 1..n |-> ServerState_new(ConfiguredIps[i])]
          /\ list_state \in {NoneSel} \cup (IF n = 0 THEN {0} ELSE 0..(n - 1))
          /\ fetched = [i \in 1..n |-> NotFetched]
          /\ last_fetch = [i \in 1..n |-> -1]
    /\ should_exit = FALSE
    /\ system_stats = [cpu_usages |-> <<>>, mem_usage |-> 0, max_mem |-> 0]
    /\ now = 0
    /\ system_update = 0
    /\ state_timer = 0
    /\ ticks = 0
    /\ ops = <<>>

\* one call of list_state_next, recorded with the selection before and after
Nav_next ==
    /\ pc = "nav"
    /\ Len(ops) < MaxOps
    /\ list_state' = list_state_next(list_state, Len(ips))
    /\ ops' = Append(ops, [op |-> "next", from |-> list_state,
                           to |-> list_state'])
    /\ UNCHANGED <<pc, ctx, idx, terminal, exit_code, ips, server_states,
                   should_exit, system_stats, now, system_update, state_timer,
                   ticks, fetched, last_fetch>>

\* one call of list_state_previous
Nav_previous ==
    /\ pc = "nav"
    /\ Len(ops) < MaxOps
    /\ list_state' = list_state_previous(list_state, Len(ips))
    /\ ops' = Append(ops, [op |-> "previous", from |-> list_state,
                           to |-> list_state'])
    /\ UNCHANGED <<pc, ctx, idx, terminal, exit_code, ips, server_states,
                   should_exit, system_stats, now, system_update, state_timer,
                   ticks, fetched, last_fetch>>

\* list_state_next in a build with overflow checks: over no address the
\* subtraction self.ips.len() - 1 is evaluated when an index is selected, and
\* panics before select is called
Nav_next_panic ==
    /\ pc = "nav"
    /\ Len(ops) < MaxOps
    /\ Len(ips) = 0
    /\ list_state # NoneSel
    /\ pc' = "panicked"
    /\ ops' = Append(ops, [op |-> "next", from |-> list_state,
                           to |-> list_state])
    /\ UNCHANGED <<ctx, idx, terminal, exit_code, ips, server_states,
                   list_state, should_exit, system_stats, now, system_update,
                   state_timer, ticks, fetched, last_fetch>>

\* list_state_previous in a build with overflow checks: the subtraction is
\* evaluated when index 0 is selected
Nav_previous_panic ==
    /\ pc = "nav"
    /\ Len(ops) < MaxOps
    /\ Len(ips) = 0
    /\ list_state = 0
    /\ pc' = "panicked"
    /\ ops' = Append(ops, [op |-> "previous", from |-> list_state,
                           to |-> list_state])
    /\ UNCHANGED <<ctx, idx, terminal, exit_code, ips, server_states,
                   list_state, should_exit, system_stats, now, system_update,
                   state_timer, ticks, fetched, last_fetch>>

SelNext == Nav_next \/ Nav_previous \/ Nav_next_panic \/ Nav_previous_panic

SelSpec == SelInit /\ [][SelNext]_vars

----------------------------------------------------------------------------
(* f32 arithmetic: a positive f32 is [m, k] with value m / 2^k and          *)
(* 2^23 <= m < 2^24; zero is [m |-> 0, k |-> 0].  Every operation rounds    *)
(* its exact result to the nearest such value, ties to the even m.          *)

RECURSIVE Pow2(_)
Pow2(k) == IF k = 0 THEN 1 ELSE 2 * Pow2(k - 1)

F32Zero == [m |-> 0, k |-> 0]

\* n / d rounded to the nearest integer, ties to even
RoundHalfEven(n, d) ==
    LET q == n \div d
        r == n % d
    IN IF 2 * r > d \/ (2 * r = d /\ q % 2 = 1) THEN q + 1 ELSE q

\* a mantissa that rounding carried to 2^24 is 2^23 one binade up
F32Norm(m, k) == IF m = Pow2(24) THEN [m |-> Pow2(23), k |-> k - 1]
                 ELSE [m |-> m, k |-> k]

\* the k with 2^23 <= n * 2^k / d < 2^24, for 0 < n / d < 2^24
RECURSIVE ScaleUp(_, _, _)
ScaleUp(n, d, k) ==
    IF n >= d * Pow2(23) THEN k ELSE ScaleUp(2 * n, d, k + 1)

\* n as f32 / d as f32, for whole numbers 0 <= n <= d (both exact in f32)
F32Div(n, d) ==
    IF n = 0 THEN F32Zero
    ELSE LET k == ScaleUp(n, d, 0)
         IN F32Norm(RoundHalfEven(n * Pow2(k), d), k)

\* the s with 2^23 <= n / 2^s < 2^24, for n >= 2^23
RECURSIVE ScaleDown(_, _)
ScaleDown(n, s) ==
    IF n < Pow2(24) * Pow2(s) THEN s ELSE ScaleDown(n, s + 1)

\* the whole number n over 2^k, as f32
RECURSIVE F32Of(_, _)
F32Of(n, k) ==
    IF n = 0 THEN F32Zero
    ELSE IF n < Pow2(23) THEN F32Of(2 * n, k + 1)
    ELSE LET s == ScaleDown(n, 0)
         IN F32Norm(RoundHalfEven(n, Pow2(s)), k - s)

\* 1.0 - x, for 0 <= x <= 1
F32OneMinus(x) == IF x.m = 0 THEN F32Of(1, 0) ELSE F32Of(Pow2(x.k) - x.m, x.k)

\* 255.0 * x: the product 255 m = 256 m - m has 31 bits (m <= 8421504) or 32,
\* of which 24 are kept
F32Mul255(x) ==
    IF x.m = 0 THEN F32Zero
    ELSE IF x.m <= 8421504
         THEN F32Norm(RoundHalfEven(255 * x.m, 128), x.k - 7)
         ELSE LET c == (x.m + 255) \div 256
                  q == x.m - c
                  r == 256 * c - x.m
              IN F32Norm(IF r > 128 \/ (r = 128 /\ q % 2 = 1) THEN q + 1 ELSE q,
                         x.k - 8)

\* `as u8` on a float in [0, 255]: the fraction is dropped
F32ToU8_round(x) == IF x.m = 0 THEN 0 ELSE RoundHalfEven(x.m, Pow2(x.k))
F32ToU8(x) == IF x.m = 0 THEN 0 ELSE x.m \div Pow2(x.k)

\* App::bar_color, for a whole-number percentage: Color::Rgb(red, green, 0)
bar_color(value) ==
    LET q == F32Div(value, 100)
    IN [red |-> F32ToU8(F32Mul255(q)),
        green |-> F32ToU8(F32Mul255(F32OneMinus(q))),
        blue |-> 0]

\* usage values the color scenarios try: the whole percentages
UsagePercents == 0..100

\* the color scenarios: one core, its usage any whole percentage
ColorInit ==
    /\ pc = "color"
    /\ ctx = "none"
    /\ idx = 0
    /\ terminal = "raw"
    /\ exit_code = -1
    /\ ips = ConfiguredIps
    /\ server_states = <<>>
    /\ list_state = NoneSel
    /\ should_exit = FALSE
    /\ \E v \in UsagePercents :
          system_stats = [cpu_usages |-> <<v>>, mem_usage |-> 0, max_mem |-> 0]
    /\ now = 0
    /\ system_update = 0
    /\ state_timer = 0
    /\ ticks = 0
    /\ fetched = <<>>
    /\ last_fetch = <<>>
    /\ ops = <<>>

\* cpu_chart -> horizontal_bar -> bar_color for that core, recorded with its
\* result
Color_call ==
    /\ pc = "color"
    /\ ops = <<>>
    /\ ops' = <<[op |-> "bar_color", from |-> system_stats.cpu_usages[1],
                  to |-> bar_color(system_stats.cpu_usages[1])]>>
    /\ UNCHANGED <<pc, ctx, idx, terminal, exit_code, ips, server_states,
                   list_state, should_exit, system_stats, now, system_update,
                   state_timer, ticks, fetched, last_fetch>>

ColorNext == Color_call

ColorSpec == ColorInit /\ [][ColorNext]_vars

----------------------------------------------------------------------------
(* Parse scenarios: ServerState::update on one entry, the fetch answered   *)
(* with any of a family of JSON bodies                                     *)

\* marks a key the body does not hold
Absent == [t |-> "absent"]

\* the JSON object holding the keys of f that are not Absent
MakeObj(f) == JObj([key \in {x \in DOMAIN f : f[x].t # "absent"} |-> f[key]])

Player(name) == MakeObj([name_clean |-> name])

OnlineValues == {Absent, JBool(TRUE), JBool(FALSE), JStr("yes")}
CountValues == {Absent, JNum(5), JNum(20), JNum(-1), JStr("5")}
ListValues ==
    {Absent, JStr("Alice"), JArr(<<>>), JArr(<<Player(JStr("Alice"))>>),
     JArr(<<Player(JStr("Alice")), Player(JStr("Bob"))>>)}
PlayersValues ==
    {Absent, JStr("none")}
    \cup {MakeObj([online |-> o, max |-> m, list |-> l]) :
             o \in CountValues, m \in CountValues, l \in ListValues}

ParseBodies ==
    {MakeObj([online |-> o, players |-> p]) :
        o \in OnlineValues, p \in PlayersValues}

ParseInit ==
    /\ pc = "parse"
    /\ ctx = "none"
    /\ idx = 1
    /\ terminal = "raw"
    /\ exit_code = -1
    /\ ips = <<ConfiguredIps[1]>>
    /\ server_states \in
          {<<ServerState_new(ConfiguredIps[1])>>,
           <<ApplyResponse(ServerState_new(ConfiguredIps[1]), RespOnline)>>}
    /\ list_state = NoneSel
    /\ should_exit = FALSE
    /\ system_stats = [cpu_usages |-> <<>>, mem_usage |-> 0, max_mem |-> 0]
    /\ now = 0
    /\ system_update = 0
    /\ state_timer = 0
    /\ ticks = 0
    /\ fetched = <<NotFetched>>
    /\ last_fetch = <<-1>>
    /\ ops = <<>>

\* one call of update, answered with body b; ctx records what it returned
Parse_update ==
    /\ pc = "parse"
    /\ fetched[1].kind = "none"
    /\ \E b \in ParseBodies :
          LET res == ServerState_update(server_states[1],
                                        [kind |-> "ok", body |-> b])
          IN /\ server_states' = <<res.state>>
             /\ fetched' = <<[kind |-> "ok", body |-> b]>>
             /\ ctx' = IF res.ok THEN "Ok" ELSE "Err"
    /\ UNCHANGED <<pc, idx, terminal, exit_code, ips, list_state, should_exit,
                   system_stats, now, system_update, state_timer, ticks,
                   last_fetch, ops>>

ParseNext == Parse_update

ParseSpec == ParseInit /\ [][ParseNext]_vars

----------------------------------------------------------------------------
(* Properties *)

Entries == 1..Len(server_states)
Failures == {"neterr", "badjson"}

\* the status a response alone determines: what update leaves in an entry
\* that held nothing before
StatusFrom(i, r) == ApplyResponse(ServerState_new(ips[i]), Responses[r])

\* the step in which the update of entry i returns
Returns(i) ==
    /\ pc = "update"
    /\ idx = i
    /\ fetched[i].kind = "none"
    /\ fetched'[i].kind # "none"

\* the step in which the fetch for entry i is issued
Issues(i) ==
    /\ pc = "update"
    /\ idx = i
    /\ fetched[i].kind = "none"
    /\ fetched'[i].kind # "none" \/ pc' = "hung"

\* C1: within one loop over the entries (the sweep of run and the loop of
\* player_list), a failed fetch for an entry A never suppresses the update of
\* another entry B: every entry before the loop's position has had its fetch,
\* when the loop is over every entry has had it, and every B whose fetch
\* succeeded holds the fetched status whatever a failed A before or after it.
C1_FailureDoesNotSuppress ==
    pc = "update" =>
        /\ \A b \in Entries : b < idx => fetched[b].kind # "none"
        /\ \A a, b \in Entries :
              (a # b /\ fetched[b].kind = "ok")
              => \A outcome \in Failures \cup {"ok", "none"} :
                    fetched[a].kind = outcome
                    => server_states[b] = StatusFrom(b, fetched[b].r)

\* a sweep that is over, in which entries 1 and 3 failed and entry 2 was fetched
C1_Witness ==
    /\ pc = "update"
    /\ ctx = "sweep"
    /\ idx > Len(server_states)
    /\ fetched[1].kind = "neterr"
    /\ fetched[2] = [kind |-> "ok", r |-> 1]
    /\ fetched[3].kind = "badjson"
    /\ server_states[2].status
    /\ server_states[2].player_count = 1

\* C3: when the fetch for an entry fails (network error or malformed JSON) the
\* entry's online flag, player_count, max_players and players are what they
\* were before the call.
C3_FailureKeepsStatus ==
    [][\A i \in Entries :
          (Returns(i) /\ fetched'[i].kind \in Failures)
          => /\ server_states'[i].status = server_states[i].status
             /\ server_states'[i].player_count = server_states[i].player_count
             /\ server_states'[i].max_players = server_states[i].max_players
             /\ server_states'[i].players = server_states[i].players]_vars

\* an entry that shows a fetched status and whose latest fetch failed, of
\* either kind
C3_Witness ==
    /\ pc = "update"
    /\ fetched[1].kind = "badjson"
    /\ fetched[2].kind = "neterr"
    /\ server_states[1].status
    /\ server_states[1].players # <<>>
    /\ server_states[2].max_players = 20

\* C4: when the fetch for an entry succeeds, the four status fields afterwards
\* are the ones the response alone determines, whatever the entry held before;
\* the players list has one element per element of the fetched list and
\* nothing from earlier fetches.
C4_SuccessReplaces ==
    [][\A i \in Entries :
          (Returns(i) /\ fetched'[i].kind = "ok")
          => LET body == Responses[fetched'[i].r]
                 list == Index(Index(body, "players"), "list")
             IN /\ server_states'[i] = StatusFrom(i, fetched'[i].r)
                /\ Len(server_states'[i].players) =
                      (IF list.t = "arr" THEN Len(list.a) ELSE 0)]_vars

\* in the loop's draw (every entry was fetched before, in the initial draw):
\* entry 1 got the one-player response, entry 2 the response without players,
\* entry 3 still shows what an earlier fetch gave
C4_Witness ==
    /\ pc = "update"
    /\ ctx = "draw"
    /\ idx = 3
    /\ fetched[1] = [kind |-> "ok", r |-> 1]
    /\ Len(server_states[1].players) = 1
    /\ fetched[2] = [kind |-> "ok", r |-> 2]
    /\ server_states[2] = ServerState_new(ips[2])
    /\ server_states[3].status

\* the thread is inside render (terminal.draw's closure)
Rendering == pc \in {"draw", "update"} /\ ctx \in {"initial", "draw"}

\* C2: a fetch that never returns does not block the control loop: while the
\* fetch for one address is pending forever, the fetch for a second address
\* is still issued and the loop still gets to handle_events, where a `q`
\* press is handled.
C2_HangDoesNotBlock ==
    \A a \in 1..Len(ConfiguredIps) :
        /\ (pc = "hung" /\ idx = a) ~> (pc = "update" /\ idx # a)
        /\ (pc = "hung" /\ idx = a) ~> (pc = "events")

\* C5: a render pass leaves every entry's status, the CPU and memory
\* snapshots and the selection unchanged, and issues no remote fetch.
C5_RenderHasNoSideEffects ==
    [][Rendering =>
          /\ server_states' = server_states
          /\ system_stats' = system_stats
          /\ list_state' = list_state
          /\ \A i \in Entries : ~Issues(i)]_vars

\* C6: for every address, at least 30,000 ms pass between the starts of two
\* consecutive fetches of it.
C6_FetchCadence ==
    [][\A i \in Entries :
          (Issues(i) /\ last_fetch[i] >= 0)
          => now - last_fetch[i] >= StateInterval]_vars

\* C7: over a list of n > 0 addresses and from a selected index i in [0, n),
\* next() selects (i + 1) mod n and previous() selects (i - 1 + n) mod n; for
\* n = 3 from index 0, three next() visit 1, 2, 0 and three previous() visit
\* 2, 1, 0.
C7_NextPreviousWrap ==
    LET n == Len(ips) IN
    /\ \A k \in 1..Len(ops) :
          ops[k].from \in 0..(n - 1) =>
              /\ ops[k].op = "next" => ops[k].to = (ops[k].from + 1) % n
              /\ ops[k].op = "previous" => ops[k].to = (ops[k].from - 1 + n) % n
    /\ (n = 3 /\ Len(ops) >= 3 /\ ops[1].from = 0) =>
          /\ (\A k \in 1..3 : ops[k].op = "next")
                => <<ops[1].to, ops[2].to, ops[3].to>> = <<1, 2, 0>>
          /\ (\A k \in 1..3 : ops[k].op = "previous")
                => <<ops[1].to, ops[2].to, ops[3].to>> = <<2, 1, 0>>

\* three next() from index 0 of three addresses, wrapping on the third
C7_Witness ==
    /\ Len(ips) = 3
    /\ Len(ops) = 3
    /\ ops[1].from = 0
    /\ \A k \in 1..3 : ops[k].op = "next"
    /\ ops[3].from = 2
    /\ list_state = 0

\* C8: from every selection the dashboard can be in when a key is handled (the
\* loop of run), next() then previous() and previous() then next() both give
\* the selection back.
C8_NextPreviousInverse ==
    pc \in {"loop", "system", "servers", "draw", "update", "events"}
    /\ ctx # "initial"
    => /\ list_state_previous(list_state_next(list_state, Len(ips)), Len(ips))
             = list_state
       /\ list_state_next(list_state_previous(list_state, Len(ips)), Len(ips))
             = list_state

\* about to handle a key with the last entry selected: next() wraps
C8_Witness ==
    /\ pc = "events"
    /\ list_state = Len(ips) - 1

\* C9: in every state in which a frame is rendered or a key is handled,
\* selected_index is a defined index in [0, count) of the server list.
C9_SelectionDefined ==
    (Rendering \/ pc = "events") =>
        /\ list_state # NoneSel
        /\ list_state \in 0..(Len(server_states) - 1)

\* C10: once a `q` press is handled the loop stops: the thread is never again
\* at a refresh, a fetch, a draw or a poll; its next step leaves the loop
\* (run returns Ok), the one after restores the terminal, and the process
\* ends with status 0.
C10_QuitStops ==
    should_exit =>
        /\ pc \in {"loop", "returned", "exited"}
        /\ pc = "loop" => ENABLED (Run_loop /\ pc' = "returned")
        /\ pc = "returned" => ENABLED Main_restore
        /\ pc = "exited" => (exit_code = 0 /\ terminal = "cooked")

\* the process has ended after a `q` press
C10_Witness ==
    /\ should_exit
    /\ pc = "exited"
    /\ exit_code = 0
    /\ terminal = "cooked"

\* C11 (as amended): for every whole usage value v in [0, 100], bar_color
\* gives red = floor(2.55 v), blue = 0 and green = floor(2.55 (100 - v)), but
\* one less than that at v = 60 and v = 80 (101 and 50: rounding in f32);
\* v = 0 gives (0, 255, 0), v = 100 gives (255, 0, 0), v = 50 gives
\* (127, 127, 0).
C11_BarColorTruncates ==
    \A n \in 1..Len(ops) :
        LET v == ops[n].from
            c == ops[n].to
        IN ops[n].op = "bar_color" =>
            /\ c.red = (255 * v) \div 100
            /\ c.green = ((255 * (100 - v)) \div 100)
                            - (IF v \in {60, 80} THEN 1 ELSE 0)
            /\ c.blue = 0
            /\ v = 0 => c = [red |-> 0, green |-> 255, blue |-> 0]
            /\ v = 100 => c = [red |-> 255, green |-> 0, blue |-> 0]
            /\ v = 50 => c = [red |-> 127, green |-> 127, blue |-> 0]

\* bar_color was applied to 50
C11_Witness ==
    /\ ops # <<>>
    /\ ops[1].op = "bar_color"
    /\ ops[1].from = 50
    /\ ops[1].to.red = 127

\* C11 as stated: red = round(2.55 v), green = round(2.55 (100 - v)), blue = 0,
\* and v = 50 gives red = 128, green = 127.
C11_BarColorRounds ==
    \A n \in 1..Len(ops) :
        LET v == ops[n].from
            c == ops[n].to
        IN ops[n].op = "bar_color" =>
            /\ c.red = (255 * v + 50) \div 100
            /\ c.green = (255 * (100 - v) + 50) \div 100
            /\ c.blue = 0
            /\ v = 50 => (c.red = 128 /\ c.green = 127)

\* the body of a parse scenario, once update has returned
Parsed == pc = "parse" /\ fetched[1].kind = "ok"

ExampleBody ==
    MakeObj([online |-> JBool(TRUE),
             players |-> MakeObj([online |-> JNum(5), max |-> JNum(20),
                                  list |-> JArr(<<Player(JStr("Alice"))>>)])])

\* C12: a successful response maps online, players.online, players.max and
\* each players.list[].name_clean to the status fields exactly: every name
\* becomes the element at its place, the name itself; the example body gives
\* online = true, player_count = 5, max_players = 20 and the one player
\* Alice, five characters long.
C12_ParseExact ==
    Parsed =>
        LET body == fetched[1].body
            list == Index(Index(body, "players"), "list")
            e == server_states[1]
        IN /\ (list.t = "arr") =>
                 /\ Len(e.players) = Len(list.a)
                 /\ \A n \in 1..Len(list.a) :
                       Index(list.a[n], "name_clean").t = "str"
                       => e.players[n] = Index(list.a[n], "name_clean").s
           /\ (body = ExampleBody) =>
                 /\ e.status = TRUE
                 /\ e.player_count = 5
                 /\ e.max_players = 20
                 /\ e.players = <<"Alice">>
                 /\ Len(e.players[1]) = 5

\* C13: a received JSON body with missing or wrongly typed fields never fails
\* the update: update returns Ok, each field that is missing or of the wrong
\* type gets its default (false, 0, 0, empty) and every other field its value
\* from the body; {"online": false} gives the all-default status.
C13_MissingFieldsDefault ==
    Parsed =>
        LET body == fetched[1].body
            online == Index(body, "online")
            count == Index(Index(body, "players"), "online")
            max == Index(Index(body, "players"), "max")
            list == Index(Index(body, "players"), "list")
            e == server_states[1]
        IN /\ ctx = "Ok"
           /\ e.status = (IF online.t = "bool" THEN online.b ELSE FALSE)
           /\ e.player_count = (IF count.t = "num" /\ count.n >= 0 THEN count.n ELSE 0)
           /\ e.max_players = (IF max.t = "num" /\ max.n >= 0 THEN max.n ELSE 0)
           /\ (list.t # "arr") => e.players = <<>>
           /\ (list.t = "arr") => Len(e.players) = Len(list.a)
           /\ (body = RespOffline) => e = ServerState_new(ips[1])

\* the body has no online key and no list, but a player count: the entry,
\* which showed a player before, gets that count and the other defaults
C13_Witness ==
    /\ Parsed
    /\ fetched[1].body = MakeObj([online |-> Absent,
                                  players |-> MakeObj([online |-> JNum(5),
                                                       max |-> Absent,
                                                       list |-> Absent])])
    /\ ctx = "Ok"
    /\ server_states[1].player_count = 5
    /\ server_states[1].status = FALSE
    /\ server_states[1].players = <<>>

\* C14: after startup the registry holds exactly one entry per configured
\* address, in the configured order; every entry starts with the default
\* status; the number and the order of the entries never change afterwards,
\* whatever refreshes, redraws and key presses occur.
C14_RegistryFixed ==
    /\ pc \notin {"main", "run"} =>
          /\ Len(server_states) = Len(ConfiguredIps)
          /\ \A i \in 1..Len(ConfiguredIps) :
                server_states[i].ip = ConfiguredIps[i]
    /\ (pc = "draw" /\ ctx = "initial") =>
          \A i \in 1..Len(ConfiguredIps) :
             server_states[i] = ServerState_new(ConfiguredIps[i])

\* in the loop, after a refresh changed the first entry and a key press moved
\* the selection, the three entries are still there in their order
C14_Witness ==
    /\ pc = "loop"
    /\ list_state = 2
    /\ server_states[1].status = TRUE
    /\ server_states[2].status = FALSE
    /\ <<server_states[1].ip, server_states[2].ip, server_states[3].ip>>
          = ConfiguredIps

C16_RearmToFireTime ==
    [][(pc = "update" /\ ctx = "sweep" /\ pc' = "draw")
          => state_timer' = last_fetch[1]]_vars

C18_OneRowHighlighted ==
    Rendering =>
        HighlightedRows(list_state, Len(server_states))
            = {DetailIndex(list_state)}

\* C19: the terminal is restored on every path by which the program leaves
\* the run loop: also when a draw or an event poll or read gives an I/O error
\* and run returns Err, ratatui::restore is executed before main returns.
C19_TerminalRestored ==
    pc = "exited" => terminal = "cooked"

====
